---- MODULE Spec2Model ----
(***************************************************************************)
(* Campus Revival: the adoption registry (School.adopters/adoptionCount),  *)
(* the adoption ledger (Adoption collection) and the POST /api/adoptions   *)
(* handler that coordinates them, as a state machine over the document     *)
(* store.  Every await of the handler is an interleaving point; a single   *)
(* findByIdAndUpdate / create is one atomic step of the store.  Beside it:  *)
(* PATCH /api/prayer-requests/answer over the PrayerRequest collection and *)
(* DELETE /api/journal/:id over the Journal collection.                    *)
(***************************************************************************)
EXTENDS Integers, Sequences, FiniteSets, TLC

VARIABLES
    schools,     \* School collection: schoolId -> stored document
    adoptions,   \* Adoption collection (ledger): sequence of rows, insertion order
    users,       \* User collection: userId -> [streakCount, lastPrayerDate]
    store,       \* rateLimit.js store: "adopt:<userId>" -> count in the current window
    today,       \* the current UTC day
    calls,       \* in-flight and finished calls: slot -> locals of the call
    initial,     \* history: the School collection as it was at the start
    prayerRequests, \* PrayerRequest collection: requestId -> stored document
    leaders,     \* User collection: the users whose isVerifiedLeader is set
    patches,     \* PATCH /api/prayer-requests/answer calls: slot -> locals
    journal,     \* Journal collection: entryId -> [userId, exists]
    deletes,     \* DELETE /api/journal/:id calls: slot -> locals
    accounts,    \* User collection by email: sequence of stored emails
    regStore,    \* rateLimit.js store: "register:<ip>" -> count in the window
    registers,   \* POST /api/auth/register calls: slot -> locals
    queries,     \* GET requests on schools: slot -> locals and response
    authn,       \* token issue and verification: configuration, clock, tokens, last answer
    limiter,     \* rateLimit.js: store, clock and the checks made so far
    client,      \* frontend/utils/api.js: refreshPromise, refresh runs, stored refresh token, requests
    db,          \* lib/mongodb.js: cached.conn, cached.promise, runs of connectWithRetry, callers
    streak       \* models/User.js: one user document under updateStreak, the clock, the document before

\* the collections and calls outside the adoption workflow
side == <<prayerRequests, leaders, patches, journal, deletes>>

\* the collections and calls of the adoption workflow
adoption == <<schools, adoptions, users, store, calls, initial>>

\* the collections and calls of registration
reg == <<accounts, regStore, registers>>

\* everything outside the adoption workflow, prayer requests and the journal
more == <<reg, queries, authn, limiter, client, db, streak>>

\* what a registration step leaves alone
exceptReg == <<schools, adoptions, users, store, calls, initial, today, side,
               queries, authn, limiter, client, db, streak>>

\* what a school query leaves alone
exceptQueries == <<adoptions, users, store, calls, initial, today, side, reg, authn, limiter, client, db, streak>>

\* what a step on authn leaves alone
exceptAuthn == <<schools, adoptions, users, store, calls, initial, today, side,
    reg, queries, limiter, client, db, streak>>

\* what a step on limiter leaves alone
exceptLimiter == <<schools, adoptions, users, store, calls, initial, today, side,
    reg, queries, authn, client, db, streak>>

\* what a step on client leaves alone
exceptClient == <<schools, adoptions, users, store, calls, initial, today, side,
    reg, queries, authn, limiter, db, streak>>

\* what a step on db leaves alone
exceptDb == <<schools, adoptions, users, store, calls, initial, today, side,
    reg, queries, authn, limiter, client, streak>>

\* what a step on streak leaves alone
exceptStreak == <<schools, adoptions, users, store, calls, initial, today, side,
    reg, queries, authn, limiter, client, db>>

vars == <<schools, adoptions, users, store, today, calls, initial, side, more>>

----------------------------------------------------------------------------
(* Bounds of the model *)

MaxCalls == 2
MaxDay == 1
MaxUtcDay == 3
PartsOfDay == 2
MaxChecks == 5
MaxNow == 4
RateWindow == 2
RateMax == 2

(* Program constants *)

MAX_ADOPTERS == 500
ADOPT_RATE_MAX == 10

Users == {1, 2}
SchoolIds == {1}
AdoptionTypes == {"prayer", "revival", "both"}
Calls == 1..MaxCalls
NoDate == -1

----------------------------------------------------------------------------
(* School documents *)

Entry(u, t, d) == [userId |-> u, adoptionType |-> t, adoptedAt |-> d]

NoEntry == Entry(0, "none", NoDate)

\* The adopters array of a school is kept as `earlier`, the number of entries
\* of users outside Users (they adopted before the first call and no call of the
\* model names them), followed by `adopters`, the entries of the users in Users
\* in array order.  Every operation on the array addresses entries by a userId
\* in Users or uses the array's length only.
NewSchool ==
    [earlier |-> 0, adopters |-> <<>>, adoptionCount |-> 0, status |-> "active",
     stats |-> [totalPrayerAdoptions |-> 0, totalRevivalAdoptions |-> 0,
                lastAdoptedAt |-> NoDate, totalJournalEntries |-> 0]]

\* a school that n other users adopted for prayer on day 0
SchoolWith(n) ==
    [NewSchool EXCEPT
        !.earlier = n,
        !.adoptionCount = n,
        !.stats = [totalPrayerAdoptions |-> n, totalRevivalAdoptions |-> 0,
                   lastAdoptedAt |-> IF n = 0 THEN NoDate ELSE 0,
                   totalJournalEntries |-> 0]]

NoDoc == [found |-> FALSE, earlier |-> 0, adopters |-> <<>>, adoptionCount |-> 0]

AsDoc(school) ==
    [found |-> TRUE, earlier |-> school.earlier, adopters |-> school.adopters,
     adoptionCount |-> school.adoptionCount]

\* doc.adopters.length
AdoptersLength(doc) == doc.earlier + Len(doc.adopters)

isAdoptedByUser(doc, u) ==
    \E i \in DOMAIN doc.adopters : doc.adopters[i].userId = u

EntriesOf(school, u) ==
    Cardinality({i \in DOMAIN school.adopters : school.adopters[i].userId = u})

\* what a caller can observe of a stored or returned document
Summary(school, u) ==
    [found |-> TRUE,
     n |-> AdoptersLength(school),
     mine |-> EntriesOf(school, u),
     adoptionCount |-> school.adoptionCount,
     totalPrayerAdoptions |-> school.stats.totalPrayerAdoptions,
     totalRevivalAdoptions |-> school.stats.totalRevivalAdoptions,
     lastAdoptedAt |-> school.stats.lastAdoptedAt,
     totalJournalEntries |-> school.stats.totalJournalEntries,
     last |-> IF school.adopters = <<>> THEN NoEntry
              ELSE school.adopters[Len(school.adopters)]]

NoSummary ==
    [found |-> FALSE, n |-> 0, mine |-> 0, adoptionCount |-> 0,
     totalPrayerAdoptions |-> 0, totalRevivalAdoptions |-> 0,
     lastAdoptedAt |-> NoDate, totalJournalEntries |-> 0, last |-> NoEntry]

\* schoolSchema.pre(/^find/): archived schools are invisible to find* queries
PreFind(school) == school.status # "archived"

\* School.findById(id)
findById(s) == IF PreFind(schools[s]) THEN AsDoc(schools[s]) ELSE NoDoc

\* variant: type both is not counted as a prayer adoption
IncPrayerOnly(t) == IF t = "prayer" THEN 1 ELSE 0

IncPrayer(t) == IF t = "prayer" \/ t = "both" THEN 1 ELSE 0

IncRevival(t) == IF t = "revival" \/ t = "both" THEN 1 ELSE 0

\* $push/$inc/$set of addAdopter's update document on a school document
PushAdopter(school, u, t, now) ==
    [school EXCEPT
        !.adopters = Append(@, Entry(u, t, now)),
        !.adoptionCount = @ + 1,
        !.stats = [totalPrayerAdoptions |-> @.totalPrayerAdoptions + IncPrayer(t),
                   totalRevivalAdoptions |-> @.totalRevivalAdoptions + IncRevival(t),
                   lastAdoptedAt |-> now,
                   totalJournalEntries |-> @.totalJournalEntries]]

\* variant: push on the loaded copy and save it whole (read-modify-write), the
\* count taken from the saved array as the pre-save hook does
SaveLoadedCopy(stored, doc, u, t, now) ==
    [stored EXCEPT
        !.earlier = doc.earlier,
        !.adopters = Append(doc.adopters, Entry(u, t, now)),
        !.adoptionCount = doc.earlier + Len(doc.adopters) + 1,
        !.stats = [totalPrayerAdoptions |-> @.totalPrayerAdoptions + IncPrayer(t),
                   totalRevivalAdoptions |-> @.totalRevivalAdoptions + IncRevival(t),
                   lastAdoptedAt |-> now,
                   totalJournalEntries |-> @.totalJournalEntries]]

\* findByIdAndUpdate(this._id, update): the update acts on the stored document,
\* whatever the caller's loaded copy holds
ApplyAdd(stored, doc, u, t, now) == PushAdopter(stored, u, t, now)

\* addAdopter's two guards, both evaluated on the caller's loaded copy
AddOutcome(doc, u) ==
    IF isAdoptedByUser(doc, u) THEN "false"
    ELSE IF AdoptersLength(doc) >= MAX_ADOPTERS THEN "throw"
    ELSE "update"

\* the update document of removeAdopter applied to the stored school
PullAdopter(school, u) ==
    [school EXCEPT
        !.adopters = SelectSeq(@, LAMBDA a : a.userId # u),
        !.adoptionCount = @ - 1]

\* removeAdopter's return value, from findByIdAndUpdate's result
RemoveResult(result) == result.found

----------------------------------------------------------------------------
(* Adoption ledger *)

Row(u, s, t) == [userId |-> u, schoolId |-> s, adoptionType |-> t]

RowsOf(u, s) ==
    {i \in DOMAIN adoptions : adoptions[i].userId = u /\ adoptions[i].schoolId = s}

\* variant: the collection has no unique index
NoUniqueIndex(row) == FALSE

\* variant: the unique index also covers adoptionType
TypeInIndex(row) == \E i \in DOMAIN adoptions : adoptions[i] = row

\* the unique index on (userId, schoolId): E11000 when a row of the pair exists
DuplicateKey(row) == RowsOf(row.userId, row.schoolId) # {}

\* variant: the catch of the older handler, which answers a duplicate key 400
CatchStatusLegacy(error) == IF error = "E11000" THEN 400 ELSE 500

\* the handler's catch: a duplicate key is a 409, anything else a 500
CatchStatus(error) == IF error = "E11000" THEN 409 ELSE 500

CatchCode(error) == IF error = "E11000" THEN "ALREADY_ADOPTED" ELSE "SERVER_ERROR"

----------------------------------------------------------------------------
(* Calls *)

NoUser == [streakCount |-> 0, lastPrayerDate |-> NoDate]

Idle ==
    [op |-> "none", pc |-> "idle", userId |-> 0, schoolId |-> 0,
     adoptionType |-> "prayer", user |-> NoUser, doc |-> NoDoc,
     created |-> FALSE, ret |-> "none", error |-> "none", pre |-> NoSummary,
     updated |-> NoSummary, status |-> 0, code |-> "none",
     schoolStats |-> [totalAdopters |-> 0, adoptionCount |-> 0],
     log |-> <<>>, retryAfter |-> FALSE, repeat |-> FALSE]

CanBegin(c) ==
    /\ calls[c].pc = "idle"
    /\ IF c = 1 THEN TRUE ELSE calls[c - 1].pc # "idle"

Respond(call, status, code) ==
    [call EXCEPT !.pc = "done", !.status = status, !.code = code]

Catch(call, error) ==
    [Respond(call, CatchStatus(error), CatchCode(error)) EXCEPT !.error = error]

\* the handler's own 429 body: code and message, no retryAfter
RateLimited(call) ==
    [Respond(call, 429, "RATE_LIMIT_EXCEEDED") EXCEPT !.retryAfter = FALSE]

\* withAuth's 401 for a request without a usable identity
Tokens == {"missing", "malformed", "expired", "unknown_user"}

AuthCode(tok) ==
    CASE tok = "missing" -> "AUTH_TOKEN_MISSING"
      [] tok = "expired" -> "AUTH_TOKEN_EXPIRED"
      [] tok = "malformed" -> "AUTH_TOKEN_INVALID"
      [] OTHER -> "AUTH_USER_NOT_FOUND"

\* the steps withAuth takes before it answers 401
AuthLog(tok) ==
    CASE tok = "missing" -> <<>>
      [] tok = "unknown_user" -> <<"verify", "findUser">>
      [] OTHER -> <<"verify">>

\* the request body's fields that fail validation
BadInputs == {"INVALID_SCHOOL_ID", "INVALID_ADOPTION_TYPE"}

\* finished requests of user u for school s that wrote the ledger row and the
\* adopters entry
Committed(u, s) ==
    {d \in Calls : calls[d].op = "post" /\ calls[d].userId = u
                   /\ calls[d].schoolId = s /\ calls[d].pc = "done"
                   /\ calls[d].created /\ calls[d].ret = "updated"}

----------------------------------------------------------------------------
(* Prayer requests *)

RequestIds == {1}

\* answerNote values a client sends; the empty string stands for no note
Notes == {"", "thanks", "<b></b>"}

\* stripHtml(answerNote.trim()).substring(0, 500) on the sample notes
stripHtml(note) == IF note = "<b></b>" THEN "" ELSE note

\* a new PrayerRequest document of user u: isAnswered defaults to false,
\* answeredAt and answerNote are unset
NewRequest(u) ==
    [userId |-> u, isAnswered |-> FALSE, answeredAt |-> NoDate, answerNote |-> ""]

NoRequest == NewRequest(0)

PatchIdle ==
    [pc |-> "idle", userId |-> 0, requestId |-> 0, answerNote |-> "",
     isLeader |-> FALSE, doc |-> NoRequest, status |-> 0, code |-> "none",
     before |-> NoRequest, after |-> NoRequest]

CanBeginPatch(c) ==
    /\ patches[c].pc = "idle"
    /\ IF c = 1 THEN TRUE ELSE patches[c - 1].pc # "idle"

\* variant: every authenticated user may mark a request answered
AnyoneMayAnswer(call, request) == TRUE

\* isOwner || isLeader of the answer handler
MayAnswer(call, request) == request.userId = call.userId \/ call.isLeader

\* the handler's assignments on the loaded document
MarkAnswered(request, note, now) ==
    [request EXCEPT
        !.isAnswered = TRUE,
        !.answeredAt = now,
        !.answerNote = IF note # "" THEN stripHtml(note) ELSE @]

\* document.save(): the paths the handler assigned are written to the stored
\* document; answerNote is assigned only when a note was sent
SaveRequest(stored, doc, note) ==
    [stored EXCEPT
        !.isAnswered = doc.isAnswered,
        !.answeredAt = doc.answeredAt,
        !.answerNote = IF note # "" THEN doc.answerNote ELSE @]

----------------------------------------------------------------------------
(* Journal entries *)

JournalIds == {1, 2}

\* entry j was written by user j
NewEntry(j) == [userId |-> j, exists |-> TRUE]

NoJournal == [userId |-> 0, exists |-> FALSE]

DeleteIdle ==
    [pc |-> "idle", userId |-> 0, entryId |-> 0, found |-> FALSE,
     status |-> 0, code |-> "none"]

CanBeginDelete(c) ==
    /\ deletes[c].pc = "idle"
    /\ IF c = 1 THEN TRUE ELSE deletes[c - 1].pc # "idle"

\* variant: the entry is looked up by its id alone
findOneById(j, u) == journal[j].exists

\* Journal.findOne({ _id: id, userId: req.user._id })
findOne(j, u) == journal[j].exists /\ journal[j].userId = u

----------------------------------------------------------------------------
(* School queries *)

Statuses == {"active", "inactive", "archived"}

\* the status query parameter; the empty string stands for none
StatusParams == {"", "active", "inactive", "archived"}

QueryKinds == {"list", "search", "slug", "adopters"}

QueryIdle ==
    [pc |-> "idle", kind |-> "none", status |-> "", total |-> 0,
     returned |-> {}, code |-> 0]

CanBeginQuery(c) ==
    /\ queries[c].pc = "idle"
    /\ IF c = 1 THEN TRUE ELSE queries[c - 1].pc # "idle"

\* status || 'active'
StatusFilter(param) == IF param = "" THEN "active" ELSE param

\* School.countDocuments({ status }): no /^find/ hook runs on a count
countDocuments(filter) ==
    Cardinality({s \in SchoolIds : schools[s].status = filter})

\* School.find({ status, ... }) behind the /^find/ hook; kept says whether the
\* hook's where() leaves the caller's status condition in place beside its own
find(filter, kept) ==
    {s \in SchoolIds :
       PreFind(schools[s]) /\ (kept => schools[s].status = filter)}

\* School.findOne({ slug }) and School.findById(id) behind the hook
findVisible(s) == IF PreFind(schools[s]) THEN {s} ELSE {}

----------------------------------------------------------------------------
(* Tokens *)

ACCESS_TOKEN_MINUTES == 60
REFRESH_TOKEN_MINUTES == 10080
MAX_RETRIES == 2
MAX_CONNECT_RETRIES == 3

\* process.env.JWT_SECRET
JWT_SECRET == "S"

\* process.env.JWT_REFRESH_SECRET: unset, equal to JWT_SECRET, or its own
RefreshSecrets == {"", "S", "R"}

\* process.env.JWT_REFRESH_SECRET || process.env.JWT_SECRET
RefreshKey(cfg) == IF cfg = "" THEN JWT_SECRET ELSE cfg

\* the instants of the model, in minutes: start, half an hour, two hours and
\* eight days later
Instants == <<0, 30, 120, 11520>>

NoToken == [type |-> "none", key |-> "", exp |-> 0]

\* jwt.sign(payload without type, JWT_SECRET, { expiresIn: '1h' })
generateAccessToken(at) ==
    [type |-> "access", key |-> JWT_SECRET,
     exp |-> Instants[at] + ACCESS_TOKEN_MINUTES]

\* jwt.sign({ id, type: 'refresh' }, refresh key, { expiresIn: '7d' })
generateRefreshToken(cfg, at) ==
    [type |-> "refresh", key |-> RefreshKey(cfg),
     exp |-> Instants[at] + REFRESH_TOKEN_MINUTES]

\* jwt.verify(token, secret): the signature, then the expiry
jwtVerify(token, secret, now) ==
    IF token.key # secret THEN "invalid"
    ELSE IF now >= token.exp THEN "expired"
    ELSE "ok"

\* withAuth: jwt.verify with JWT_SECRET; the payload's type is not looked at
withAuthAccepts(token, cfg, now) == jwtVerify(token, JWT_SECRET, now) = "ok"

\* POST /api/auth/refresh: jwt.verify with the refresh key, then the type
refreshAccepts(token, cfg, now) ==
    /\ jwtVerify(token, RefreshKey(cfg), now) = "ok"
    /\ token.type = "refresh"

Endpoints == {"protected", "refresh"}

NoAnswer == [endpoint |-> "none", token |-> NoToken, at |-> 0, ok |-> FALSE]

AuthnInit(cfg) ==
    [refreshSecret |-> cfg, at |-> 1, access |-> NoToken, refresh |-> NoToken,
     last |-> NoAnswer]

----------------------------------------------------------------------------
(* Rate limiter *)

RateIds == {"a", "b"}

NoWindow == [present |-> FALSE, count |-> 0, resetAt |-> 0]

LimiterInit ==
    [store |-> [id \in RateIds |-> NoWindow], now |-> 0, hist |-> <<>>]

\* variant: the check that reaches max is already denied
AllowedBelowMax(count) == count < RateMax

\* allowed: entry.count <= max
Allowed(count) == count <= RateMax

\* !entry || now > entry.resetAt
Expired(entry, now) == ~entry.present \/ now > entry.resetAt

\* checkRateLimit(identifier, { windowMs: RateWindow, max: RateMax }): the
\* entry after the call
checkRateLimit(entry, now) ==
    IF Expired(entry, now)
    THEN [present |-> TRUE, count |-> 1, resetAt |-> now + RateWindow]
    ELSE [entry EXCEPT !.count = @ + 1]

----------------------------------------------------------------------------
(* Browser client *)

\* the apiRequest calls of one page
Requests == {1, 2}

\* what a fetch of the endpoint settles with: a network failure or a response
Outcomes == {"network", "200", "401", "404", "429", "500", "502html"}

\* response.status
Status(outcome) ==
    CASE outcome = "200" -> 200
      [] outcome = "401" -> 401
      [] outcome = "404" -> 404
      [] outcome = "429" -> 429
      [] outcome = "500" -> 500
      [] outcome = "502html" -> 502
      [] OTHER -> 0

\* response.json() resolves
HasJson(outcome) == outcome \notin {"network", "502html"}

\* what POST /auth/refresh settles with
RefreshOutcomes == {"token", "noToken", "notOk", "network"}

\* one call of apiRequest, with the recursive calls it makes
RequestIdle ==
    [pc |-> "idle", attempt |-> 0, fetches |-> 0, last |-> "none", run |-> 0,
     result |-> "none"]

\* the promise of one run of the refresh closure
PendingRun == [settled |-> FALSE, result |-> "pending"]

NullRun == [settled |-> TRUE, result |-> "null"]

ClientInit ==
    [refreshPromise |-> 0, runs |-> <<>>, refreshToken |-> FALSE,
     requests |-> [c \in Requests |-> RequestIdle]]

CanBeginRequest(c) ==
    /\ client.requests[c].pc = "idle"
    /\ \A d \in Requests : d < c => client.requests[d].pc # "idle"

\* variant: a 401 is answered with a refresh on every attempt
MayRefreshAlways(attempt) == TRUE

\* response.status === 401 && attempt === 0
MayRefresh(attempt) == attempt = 0

\* attempt < MAX_RETRIES
MayRetry(attempt) == attempt < MAX_RETRIES

\* what the request does with a settled fetch, short of refreshing
Handle(request, outcome) ==
    LET q == [request EXCEPT !.last = outcome]
        status == Status(outcome)
    IN IF outcome = "network"
       THEN IF MayRetry(q.attempt)
            THEN [q EXCEPT !.pc = "delay"]
            ELSE [q EXCEPT !.pc = "done", !.result = "NETWORK"]
       ELSE IF ~HasJson(outcome)
       THEN [q EXCEPT !.pc = "done",
                      !.result = IF status \in 200..299 THEN "data" ELSE "SERVER"]
       ELSE IF status \in 200..299
       THEN [q EXCEPT !.pc = "done", !.result = "data"]
       ELSE IF status = 429
       THEN [q EXCEPT !.pc = "done", !.result = "RATE_LIMIT"]
       ELSE IF status >= 400 /\ status < 500
       THEN [q EXCEPT !.pc = "done", !.result = "CLIENT"]
       ELSE IF status >= 500 /\ MayRetry(q.attempt)
       THEN [q EXCEPT !.pc = "delay"]
       ELSE [q EXCEPT !.pc = "done", !.result = "SERVER"]

\* refreshAccessToken() up to its first await: the promise the caller gets,
\* with refreshPromise and the runs afterwards
refreshAccessToken ==
    IF client.refreshPromise # 0
    THEN [promise |-> client.refreshPromise, runs |-> client.runs]
    ELSE [promise |-> Len(client.runs) + 1,
          runs |-> Append(client.runs,
                          IF client.refreshToken THEN PendingRun ELSE NullRun)]

----------------------------------------------------------------------------
(* Database connection *)

\* the dbConnect calls of one warm instance
Connectors == {1, 2, 3, 4}

\* one call of dbConnect
ConnectorIdle == [pc |-> "idle", run |-> 0, result |-> "none"]

\* one run of connectWithRetry: its promise and its loop counter
NewRun == [state |-> "pending", attempt |-> 1]

\* global.__mongooseCache and the runs started so far
DbInit ==
    [conn |-> FALSE, promise |-> 0, runs |-> <<>>,
     connectors |-> [c \in Connectors |-> ConnectorIdle]]

CanBeginConnect(c) ==
    /\ db.connectors[c].pc = "idle"
    /\ \A d \in Connectors : d < c => db.connectors[d].pc # "idle"

\* one pass of the loop of connectWithRetry whose mongoose.connect settled
connectWithRetry(run, connected) ==
    IF connected
    THEN [run EXCEPT !.state = "resolved"]
    ELSE IF run.attempt < MAX_CONNECT_RETRIES
    THEN [run EXCEPT !.attempt = @ + 1]
    ELSE [run EXCEPT !.state = "rejected"]

----------------------------------------------------------------------------
(* Prayer streak *)

\* the instants of the clock: PartsOfDay to the UTC day
StreakInstants == 0..((MaxUtcDay + 1) * PartsOfDay - 1)

\* Date.UTC(d.getUTCFullYear(), d.getUTCMonth(), d.getUTCDate())
utcMidnight(instant) == (instant \div PartsOfDay) * PartsOfDay

\* variant: the whole days elapsed between the two instants
diffDaysElapsed(last, now) == (now - last) \div PartsOfDay

\* Math.floor((todayUTC - lastUTC) / (1000 * 60 * 60 * 24))
diffDays(last, now) == (utcMidnight(now) - utcMidnight(last)) \div PartsOfDay

\* userSchema.methods.updateStreak at instant now, lastPrayerDate an instant
updateStreakAt(user, now) ==
    [streakCount |->
        IF user.lastPrayerDate = NoDate THEN 1
        ELSE IF diffDays(user.lastPrayerDate, now) = 1 THEN user.streakCount + 1
        ELSE IF diffDays(user.lastPrayerDate, now) > 1 THEN 1
        ELSE user.streakCount,
     lastPrayerDate |-> now]

\* one user document, the clock and the document before the last call
StreakInit == [user |-> NoUser, now |-> 0, before |-> NoUser, op |-> "none"]

----------------------------------------------------------------------------
(* Registration *)

REGISTER_RATE_MAX == 5

Ips == {1, 2}

\* email values a client sends
Emails == {"a@x.io", " A@X.io ", "b@x.io"}

\* email.toLowerCase().trim()
Normalise(email) == IF email = " A@X.io " THEN "a@x.io" ELSE email

RegisterIdle ==
    [pc |-> "idle", ip |-> 0, email |-> "", created |-> FALSE,
     status |-> 0, code |-> "none", retryAfter |-> FALSE]

CanBeginRegister(c) ==
    /\ registers[c].pc = "idle"
    /\ IF c = 1 THEN TRUE ELSE registers[c - 1].pc # "idle"

\* variant: the email path has no unique index
NoEmailIndex(email) == FALSE

\* the unique index on User.email: E11000 when the stored email exists
DuplicateEmail(email) == \E i \in DOMAIN accounts : accounts[i] = email

\* no account, no registration request made
InitRegister ==
    /\ accounts = <<>>
    /\ regStore = [ip \in Ips |-> 0]
    /\ registers = [c \in Calls |-> RegisterIdle]

----------------------------------------------------------------------------
\* user 1 has one unanswered prayer request; nobody is a verified leader;
\* each user has one journal entry
InitSide ==
    /\ prayerRequests = [r \in RequestIds |-> NewRequest(1)]
    /\ leaders = {}
    /\ patches = [c \in Calls |-> PatchIdle]
    /\ journal = [j \in JournalIds |-> NewEntry(j)]
    /\ deletes = [c \in Calls |-> DeleteIdle]

\* the rate limiter, the browser client and the database connection at start
InitRest ==
    /\ limiter = LimiterInit
    /\ client = ClientInit
    /\ db = DbInit
    /\ streak = StreakInit

\* the state outside the adoption workflow, prayer requests and the journal
InitMore ==
    /\ InitRegister
    /\ queries = [c \in Calls |-> QueryIdle]
    /\ authn = AuthnInit("")
    /\ InitRest

----------------------------------------------------------------------------
\* The school has no or MAX_ADOPTERS - 1 earlier adopters and is active or
\* archived; user 1 has made no or ADOPT_RATE_MAX - 1 adoption requests in the
\* current rate-limit window (requests count whatever they were answered).
Init ==
    /\ \E n \in {0, MAX_ADOPTERS - 1}, st \in {"active", "archived"} :
          schools = [s \in SchoolIds |-> [SchoolWith(n) EXCEPT !.status = st]]
    /\ adoptions = <<>>
    /\ users = [u \in Users |-> NoUser]
    /\ \E k \in {0, ADOPT_RATE_MAX - 1} : store = [u \in Users |-> IF u = 1 THEN k ELSE 0]
    /\ today = 0
    /\ calls = [c \in Calls |-> Idle]
    /\ initial = schools
    /\ InitSide
    /\ InitMore

\* POST /api/adoptions: withAuth resolves the user, then the rate limit
BeginPost(c, u, s, t) ==
    /\ CanBegin(c)
    /\ store' = [store EXCEPT ![u] = @ + 1]
    /\ LET call == [Idle EXCEPT !.op = "post", !.userId = u, !.schoolId = s,
                                !.adoptionType = t, !.user = users[u],
                                !.log = <<"verify", "findUser", "rateLimit">>,
                                !.repeat = Committed(u, s) # {}]
       IN calls' = [calls EXCEPT ![c] =
                      IF store'[u] <= ADOPT_RATE_MAX
                      THEN [call EXCEPT !.pc = "load"]
                      ELSE RateLimited(call)]
    /\ UNCHANGED <<schools, adoptions, users, today, initial, side, more>>

\* POST /api/adoptions without a usable identity: withAuth answers 401 and the
\* handler is never entered
BeginUnauthorized(c, tok) ==
    /\ CanBegin(c)
    /\ calls' = [calls EXCEPT ![c] =
                   Respond([Idle EXCEPT !.op = "post", !.log = AuthLog(tok)],
                           401, AuthCode(tok))]
    /\ UNCHANGED <<schools, adoptions, users, store, today, initial, side, more>>

\* POST /api/adoptions with a malformed schoolId or adoptionType: the rate
\* limit counts the request, then validation answers 400
BeginInvalid(c, u, bad) ==
    /\ CanBegin(c)
    /\ store' = [store EXCEPT ![u] = @ + 1]
    /\ LET call == [Idle EXCEPT !.op = "post", !.userId = u, !.user = users[u],
                                !.log = <<"verify", "findUser", "rateLimit">>]
       IN calls' = [calls EXCEPT ![c] =
                      IF store'[u] <= ADOPT_RATE_MAX
                      THEN Respond(call, 400, bad)
                      ELSE RateLimited(call)]
    /\ UNCHANGED <<schools, adoptions, users, today, initial, side, more>>

\* variant: the pre-check of the older handler, which answers 400
LoadSchoolLegacy(c) ==
    /\ calls[c].pc = "load"
    /\ LET call == [calls[c] EXCEPT !.doc = findById(calls[c].schoolId)]
       IN calls' = [calls EXCEPT ![c] =
                      IF ~call.doc.found
                      THEN Respond(call, 404, "SCHOOL_NOT_FOUND")
                      ELSE IF isAdoptedByUser(call.doc, call.userId)
                      THEN Respond(call, 400, "ALREADY_ADOPTED")
                      ELSE [call EXCEPT !.pc = "create"]]
    /\ UNCHANGED <<schools, adoptions, users, store, today, initial, side, more>>

\* variant: the ledger row is inserted before the school is looked up
LoadSchoolAfterCreate(c) ==
    /\ calls[c].pc = "load"
    /\ LET call == [calls[c] EXCEPT !.doc = findById(calls[c].schoolId)]
           row == Row(call.userId, call.schoolId, call.adoptionType)
       IN /\ adoptions' = IF DuplicateKey(row) THEN adoptions
                          ELSE Append(adoptions, row)
          /\ calls' = [calls EXCEPT ![c] =
                         IF ~call.doc.found
                         THEN Respond(call, 404, "SCHOOL_NOT_FOUND")
                         ELSE IF isAdoptedByUser(call.doc, call.userId)
                         THEN Respond(call, 409, "ALREADY_ADOPTED")
                         ELSE [call EXCEPT !.pc = "addAdopter"]]
    /\ UNCHANGED <<schools, users, store, today, initial, side, more>>

\* School.findById, the 404 and the isAdoptedByUser pre-check
LoadSchool(c) ==
    /\ calls[c].pc = "load"
    /\ LET call == [calls[c] EXCEPT !.doc = findById(calls[c].schoolId)]
       IN calls' = [calls EXCEPT ![c] =
                      IF ~call.doc.found
                      THEN Respond(call, 404, "SCHOOL_NOT_FOUND")
                      ELSE IF isAdoptedByUser(call.doc, call.userId)
                      THEN Respond(call, 409, "ALREADY_ADOPTED")
                      ELSE [call EXCEPT !.pc = "create"]]
    /\ UNCHANGED <<schools, adoptions, users, store, today, initial, side, more>>

\* variant: Adoption.create is not awaited and its insert is lost; the handler
\* goes on to addAdopter
CreateAdoptionNotAwaited(c) ==
    /\ calls[c].pc = "create"
    /\ calls' = [calls EXCEPT ![c] =
                   [calls[c] EXCEPT !.pc = "addAdopter", !.created = TRUE]]
    /\ UNCHANGED <<schools, adoptions, users, store, today, initial, side, more>>

\* Adoption.create; a duplicate key is caught and answered 409
CreateAdoption(c) ==
    /\ calls[c].pc = "create"
    /\ LET call == calls[c]
           row == Row(call.userId, call.schoolId, call.adoptionType)
       IN IF DuplicateKey(row)
          THEN /\ calls' = [calls EXCEPT ![c] = Catch(call, "E11000")]
               /\ UNCHANGED adoptions
          ELSE /\ adoptions' = Append(adoptions, row)
               /\ calls' = [calls EXCEPT ![c] =
                              [call EXCEPT !.pc = "addAdopter", !.created = TRUE]]
    /\ UNCHANGED <<schools, users, store, today, initial, side, more>>

\* school.addAdopter(userId, type): the guards on the loaded copy, then one
\* findByIdAndUpdate with $push/$inc/$set; in the handler a throw is answered 500
AddAdopter(c) ==
    /\ calls[c].pc = "addAdopter"
    /\ LET call == calls[c]
           s == call.schoolId
           outcome == AddOutcome(call.doc, call.userId)
           hit == outcome = "update" /\ PreFind(schools[s])
           after == ApplyAdd(schools[s], call.doc, call.userId,
                             call.adoptionType, today)
           ret == IF outcome = "update"
                  THEN (IF hit THEN "updated" ELSE "null")
                  ELSE outcome
           done == [call EXCEPT
                      !.ret = ret,
                      !.pre = IF hit THEN Summary(schools[s], call.userId) ELSE @,
                      !.updated = IF hit THEN Summary(after, call.userId) ELSE @]
       IN /\ schools' = IF hit THEN [schools EXCEPT ![s] = after] ELSE schools
          /\ calls' = [calls EXCEPT ![c] =
                         IF call.op = "post"
                         THEN (IF ret = "throw"
                               THEN Catch(done, "MAX_ADOPTERS")
                               ELSE [done EXCEPT !.pc = "streak"])
                         ELSE [done EXCEPT !.pc = "done"]]
    /\ UNCHANGED <<adoptions, users, store, today, initial, side, more>>

\* userSchema.methods.updateStreak on the request's copy of the user
updateStreak(user, day) ==
    [streakCount |->
        IF user.lastPrayerDate = NoDate THEN 1
        ELSE IF day - user.lastPrayerDate = 1 THEN user.streakCount + 1
        ELSE IF day - user.lastPrayerDate > 1 THEN 1
        ELSE user.streakCount,
     lastPrayerDate |-> day]

\* the 201 body's schoolStats, from addAdopter's result or the loaded copy
SchoolStats(call) ==
    IF call.updated.found
    THEN [totalAdopters |-> call.updated.n,
          adoptionCount |-> call.updated.adoptionCount]
    ELSE [totalAdopters |-> AdoptersLength(call.doc) + 1,
          adoptionCount |-> call.doc.adoptionCount + 1]

\* user.updateStreak() (save writes the modified paths), populate, 201
UpdateStreak(c) ==
    /\ calls[c].pc = "streak"
    /\ LET call == calls[c]
           u == call.userId
           saved == updateStreak(call.user, today)
       IN /\ users' = [users EXCEPT ![u] =
                         [streakCount |-> IF saved.streakCount # call.user.streakCount
                                          THEN saved.streakCount
                                          ELSE @.streakCount,
                          lastPrayerDate |-> saved.lastPrayerDate]]
          /\ calls' = [calls EXCEPT ![c] =
                         [Respond(call, 201, "CREATED") EXCEPT
                            !.user = saved,
                            !.schoolStats = SchoolStats(call)]]
    /\ UNCHANGED <<schools, adoptions, store, today, initial, side, more>>

\* user.updateStreak() rejects (its save fails): the handler's catch answers
\* 500 after the ledger and the registry were written
StreakSaveFails(c) ==
    /\ calls[c].pc = "streak"
    /\ calls' = [calls EXCEPT ![c] = Catch(calls[c], "SAVE_FAILED")]
    /\ UNCHANGED <<schools, adoptions, users, store, today, initial, side, more>>

\* an administrator archives a school (status is set outside the handlers)
ArchiveSchool(s) ==
    /\ schools[s].status = "active"
    /\ schools' = [schools EXCEPT ![s].status = "archived"]
    /\ UNCHANGED <<adoptions, users, store, today, calls, initial, side, more>>

\* a caller outside the HTTP handler: School.findById, then doc.addAdopter
BeginAdd(c, u, s, t) ==
    /\ CanBegin(c)
    /\ LET call == [Idle EXCEPT !.op = "add", !.userId = u, !.schoolId = s,
                                !.adoptionType = t, !.doc = findById(s)]
       IN calls' = [calls EXCEPT ![c] =
                      [call EXCEPT !.pc = IF call.doc.found THEN "addAdopter" ELSE "done"]]
    /\ UNCHANGED <<schools, adoptions, users, store, today, initial, side, more>>

\* a caller outside the HTTP handler: School.findById, then doc.removeAdopter
BeginRemove(c, u, s) ==
    /\ CanBegin(c)
    /\ LET call == [Idle EXCEPT !.op = "remove", !.userId = u, !.schoolId = s,
                                !.doc = findById(s)]
       IN calls' = [calls EXCEPT ![c] =
                      [call EXCEPT !.pc = IF call.doc.found THEN "removeAdopter" ELSE "done"]]
    /\ UNCHANGED <<schools, adoptions, users, store, today, initial, side, more>>

\* school.removeAdopter(userId): one findByIdAndUpdate with $pull/$inc
RemoveAdopter(c) ==
    /\ calls[c].pc = "removeAdopter"
    /\ LET call == calls[c]
           s == call.schoolId
           hit == PreFind(schools[s])
           after == PullAdopter(schools[s], call.userId)
           result == IF hit THEN Summary(after, call.userId) ELSE NoSummary
       IN /\ schools' = IF hit THEN [schools EXCEPT ![s] = after] ELSE schools
          /\ calls' = [calls EXCEPT ![c] =
                         [call EXCEPT
                            !.pc = "done",
                            !.pre = IF hit THEN Summary(schools[s], call.userId) ELSE @,
                            !.updated = result,
                            !.ret = IF RemoveResult(result) THEN "true" ELSE "false"]]
    /\ UNCHANGED <<adoptions, users, store, today, initial, side, more>>

\* one school without adopters, no adoption request made
InitQuiet ==
    /\ schools = [s \in SchoolIds |-> NewSchool]
    /\ adoptions = <<>>
    /\ users = [u \in Users |-> NoUser]
    /\ store = [u \in Users |-> 0]
    /\ today = 0
    /\ calls = [c \in Calls |-> Idle]
    /\ initial = schools
    /\ InitSide
    /\ InitMore

\* a day passes; the rate-limit windows of the day before have expired
Tick ==
    /\ today < MaxDay
    /\ today' = today + 1
    /\ store' = [u \in Users |-> 0]
    /\ UNCHANGED <<schools, adoptions, users, calls, initial, side, more>>

\* POST /api/auth/verify-leader with an institutional email
VerifyLeader(u) ==
    /\ u \notin leaders
    /\ leaders' = leaders \cup {u}
    /\ UNCHANGED <<adoption, more, today, prayerRequests, patches, journal, deletes>>

\* PATCH /api/prayer-requests/answer: withAuth resolves the user
BeginPatch(c, u, r, note) ==
    /\ CanBeginPatch(c)
    /\ patches' = [patches EXCEPT ![c] =
                     [PatchIdle EXCEPT !.pc = "find", !.userId = u, !.requestId = r,
                                       !.answerNote = note,
                                       !.isLeader = u \in leaders]]
    /\ UNCHANGED <<adoption, more, today, prayerRequests, leaders, journal, deletes>>

\* PrayerRequest.findById, the 403, and the assignments on the loaded document
FindRequest(c) ==
    /\ patches[c].pc = "find"
    /\ LET call == [patches[c] EXCEPT !.doc = prayerRequests[patches[c].requestId]]
       IN patches' = [patches EXCEPT ![c] =
                        IF ~MayAnswer(call, call.doc)
                        THEN [call EXCEPT !.pc = "done", !.status = 403,
                                          !.code = "FORBIDDEN"]
                        ELSE [call EXCEPT
                                !.pc = "save",
                                !.doc = MarkAnswered(@, call.answerNote, today)]]
    /\ UNCHANGED <<adoption, more, today, prayerRequests, leaders, journal, deletes>>

\* prayerRequest.save(), populate, 200
SavePatch(c) ==
    /\ patches[c].pc = "save"
    /\ LET call == patches[c]
           r == call.requestId
           saved == SaveRequest(prayerRequests[r], call.doc, call.answerNote)
       IN /\ prayerRequests' = [prayerRequests EXCEPT ![r] = saved]
          /\ patches' = [patches EXCEPT ![c] =
                           [call EXCEPT !.pc = "done", !.status = 200,
                                        !.code = "OK",
                                        !.before = prayerRequests[r],
                                        !.after = saved]]
    /\ UNCHANGED <<adoption, more, today, leaders, journal, deletes>>

\* DELETE /api/journal/:id without a usable identity: withAuth answers 401
BeginDeleteUnauthorized(c, j, tok) ==
    /\ CanBeginDelete(c)
    /\ deletes' = [deletes EXCEPT ![c] =
                     [DeleteIdle EXCEPT !.pc = "done", !.entryId = j,
                                        !.status = 401, !.code = AuthCode(tok)]]
    /\ UNCHANGED <<adoption, more, today, prayerRequests, leaders, patches, journal>>

\* DELETE /api/journal/:id: withAuth resolves the user
BeginDelete(c, u, j) ==
    /\ CanBeginDelete(c)
    /\ deletes' = [deletes EXCEPT ![c] =
                     [DeleteIdle EXCEPT !.pc = "find", !.userId = u, !.entryId = j]]
    /\ UNCHANGED <<adoption, more, today, prayerRequests, leaders, patches, journal>>

\* Journal.findOne by id and owner, and the 404
FindEntry(c) ==
    /\ deletes[c].pc = "find"
    /\ LET call == deletes[c]
       IN deletes' = [deletes EXCEPT ![c] =
                        IF findOne(call.entryId, call.userId)
                        THEN [call EXCEPT !.pc = "delete", !.found = TRUE]
                        ELSE [call EXCEPT !.pc = "done", !.status = 404,
                                          !.code = "ENTRY_NOT_FOUND"]]
    /\ UNCHANGED <<adoption, more, today, prayerRequests, leaders, patches, journal>>

\* entry.deleteOne(), 200
DeleteEntry(c) ==
    /\ deletes[c].pc = "delete"
    /\ journal' = [journal EXCEPT ![deletes[c].entryId].exists = FALSE]
    /\ deletes' = [deletes EXCEPT ![c] =
                     [@ EXCEPT !.pc = "done", !.status = 200, !.code = "OK"]]
    /\ UNCHANGED <<adoption, more, today, prayerRequests, leaders, patches>>

\* collections as in InitQuiet; the client at ip 1 has made no or
\* REGISTER_RATE_MAX - 1 registration requests in the current window
InitRegisterBusy ==
    /\ schools = [s \in SchoolIds |-> NewSchool]
    /\ adoptions = <<>>
    /\ users = [u \in Users |-> NoUser]
    /\ store = [u \in Users |-> 0]
    /\ today = 0
    /\ calls = [c \in Calls |-> Idle]
    /\ initial = schools
    /\ InitSide
    /\ accounts = <<>>
    /\ \E k \in {0, REGISTER_RATE_MAX - 1} :
          regStore = [ip \in Ips |-> IF ip = 1 THEN k ELSE 0]
    /\ registers = [c \in Calls |-> RegisterIdle]
    /\ queries = [c \in Calls |-> QueryIdle]
    /\ authn = AuthnInit("")
    /\ InitRest

\* dbConnect() up to its await: the warm connection, the missing uri, or the
\* promise of the run in cached.promise, started now if there is none
dbConnect(c, uri) ==
    /\ CanBeginConnect(c)
    /\ IF db.conn
       THEN db' = [db EXCEPT !.connectors[c] =
                     [@ EXCEPT !.pc = "done", !.result = "conn"]]
       ELSE IF ~uri
       THEN db' = [db EXCEPT !.connectors[c] =
                     [@ EXCEPT !.pc = "done", !.result = "throw"]]
       ELSE IF db.promise = 0
       THEN db' = [db EXCEPT
                     !.runs = Append(@, NewRun),
                     !.promise = Len(db.runs) + 1,
                     !.connectors[c] =
                        [@ EXCEPT !.pc = "await", !.run = Len(db.runs) + 1]]
       ELSE db' = [db EXCEPT !.connectors[c] =
                     [@ EXCEPT !.pc = "await", !.run = db.promise]]
    /\ UNCHANGED exceptDb

\* mongoose.connect of run k settles
Connect(k, connected) ==
    /\ k \in DOMAIN db.runs
    /\ db.runs[k].state = "pending"
    /\ db' = [db EXCEPT !.runs[k] = connectWithRetry(@, connected)]
    /\ UNCHANGED exceptDb

\* the awaited promise has settled: cache the connection, or reset
\* cached.promise and rethrow
AwaitPromise(c) ==
    /\ db.connectors[c].pc = "await"
    /\ db.runs[db.connectors[c].run].state # "pending"
    /\ IF db.runs[db.connectors[c].run].state = "resolved"
       THEN db' = [db EXCEPT
                     !.conn = TRUE,
                     !.connectors[c] = [@ EXCEPT !.pc = "done", !.result = "conn"]]
       ELSE db' = [db EXCEPT
                     !.promise = 0,
                     !.connectors[c] = [@ EXCEPT !.pc = "done", !.result = "throw"]]
    /\ UNCHANGED exceptDb

NextDb ==
    \/ \E c \in Connectors, uri \in BOOLEAN : dbConnect(c, uri)
    \/ \E k \in 1..Cardinality(Connectors), connected \in BOOLEAN : Connect(k, connected)
    \/ \E c \in Connectors : AwaitPromise(c)

\* user.updateStreak() on the stored document
Pray ==
    /\ streak' = [streak EXCEPT !.user = updateStreakAt(@, streak.now),
                                !.before = streak.user,
                                !.op = "updateStreak"]
    /\ UNCHANGED exceptStreak

\* the clock moves on
Wait ==
    /\ streak.now + 1 \in StreakInstants
    /\ streak' = [streak EXCEPT !.now = @ + 1, !.op = "wait"]
    /\ UNCHANGED exceptStreak

NextStreak ==
    \/ Pray
    \/ Wait

\* apiRequest(endpoint, options): the first fetch is sent
BeginRequest(c) ==
    /\ CanBeginRequest(c)
    /\ client' = [client EXCEPT !.requests[c] =
                     [RequestIdle EXCEPT !.pc = "fetching", !.fetches = 1]]
    /\ UNCHANGED exceptClient

\* the fetch of the endpoint settles; a 401 on a refreshing attempt calls
\* refreshAccessToken, everything else is classified
SettleFetch(c, outcome) ==
    /\ client.requests[c].pc = "fetching"
    /\ IF Status(outcome) = 401 /\ MayRefresh(client.requests[c].attempt)
       THEN /\ Len(client.runs) < Cardinality(Requests) \/ client.refreshPromise # 0
            /\ client' = [client EXCEPT
                             !.refreshPromise = refreshAccessToken.promise,
                             !.runs = refreshAccessToken.runs,
                             !.requests[c] =
                                [@ EXCEPT !.pc = "refreshing",
                                          !.last = outcome,
                                          !.run = refreshAccessToken.promise]]
       ELSE client' = [client EXCEPT
                         !.requests[c] = Handle(client.requests[c], outcome)]
    /\ UNCHANGED exceptClient

\* the back-off timer fires: apiRequest(endpoint, options, attempt + 1)
Retry(c) ==
    /\ client.requests[c].pc = "delay"
    /\ client' = [client EXCEPT !.requests[c] =
                     [@ EXCEPT !.pc = "fetching", !.attempt = @ + 1,
                               !.fetches = @ + 1]]
    /\ UNCHANGED exceptClient

\* POST /auth/refresh settles: the closure stores the token or gives null and
\* its finally resets refreshPromise; clearAuthTokens is defined in no script
\* of the client, so it clears the tokens or throws into the catch
SettleRefresh(k, outcome) ==
    /\ k \in DOMAIN client.runs
    /\ ~client.runs[k].settled
    /\ \E defined \in BOOLEAN :
          client' = [client EXCEPT
                       !.runs[k] = [settled |-> TRUE,
                                    result |-> IF outcome = "token"
                                               THEN "token" ELSE "null"],
                       !.refreshToken = IF outcome = "notOk" /\ defined
                                        THEN FALSE ELSE @,
                       !.refreshPromise = 0]
    /\ UNCHANGED exceptClient

\* the awaited refresh has settled: retry with the new token, or give up
Resume(c) ==
    /\ client.requests[c].pc = "refreshing"
    /\ client.runs[client.requests[c].run].settled
    /\ IF client.runs[client.requests[c].run].result = "token"
       THEN client' = [client EXCEPT !.requests[c] =
                         [@ EXCEPT !.pc = "fetching", !.attempt = @ + 1,
                                   !.fetches = @ + 1]]
       ELSE \E defined \in BOOLEAN :
               client' = [client EXCEPT
                            !.refreshToken = IF defined THEN FALSE ELSE @,
                            !.requests[c] =
                               [@ EXCEPT !.pc = "done",
                                         !.result = IF defined THEN "AUTH"
                                                    ELSE "ReferenceError"]]
    /\ UNCHANGED exceptClient

\* loginUser / registerUser got tokens: setRefreshToken(payload.refreshToken)
setRefreshToken ==
    /\ ~client.refreshToken
    /\ client' = [client EXCEPT !.refreshToken = TRUE]
    /\ UNCHANGED exceptClient

NextClient ==
    \/ \E c \in Requests : BeginRequest(c)
    \/ \E c \in Requests, outcome \in Outcomes : SettleFetch(c, outcome)
    \/ \E c \in Requests : Retry(c)
    \/ \E k \in 1..Cardinality(Requests), outcome \in RefreshOutcomes : SettleRefresh(k, outcome)
    \/ \E c \in Requests : Resume(c)
    \/ setRefreshToken

\* every fetch settles and every timer fires
FairClient ==
    /\ \A c \in Requests :
          /\ WF_vars(\E outcome \in Outcomes : SettleFetch(c, outcome))
          /\ WF_vars(Retry(c))
          /\ WF_vars(Resume(c))
    /\ \A k \in 1..Cardinality(Requests) :
          WF_vars(\E outcome \in RefreshOutcomes : SettleRefresh(k, outcome))

\* one call of checkRateLimit for identifier id
Check(id) ==
    /\ Len(limiter.hist) < MaxChecks
    /\ LET entry == checkRateLimit(limiter.store[id], limiter.now)
       IN limiter' = [limiter EXCEPT
                        !.store[id] = entry,
                        !.hist = Append(@, [id |-> id, at |-> limiter.now,
                                            allowed |-> Allowed(entry.count),
                                            resetAt |-> entry.resetAt])]
    /\ UNCHANGED exceptLimiter

\* the clock advances
Elapse ==
    /\ limiter.now < MaxNow
    /\ limiter' = [limiter EXCEPT !.now = @ + 1]
    /\ UNCHANGED exceptLimiter

\* the cleanup timer fires: expired entries are deleted
Cleanup ==
    /\ limiter' = [limiter EXCEPT
                      !.store = [id \in RateIds |->
                                   IF limiter.store[id].present
                                      /\ limiter.now > limiter.store[id].resetAt
                                   THEN NoWindow ELSE limiter.store[id]]]
    /\ UNCHANGED exceptLimiter

NextLimiter ==
    \/ \E id \in RateIds : Check(id)
    \/ Elapse
    \/ Cleanup

\* POST /api/auth/register: the rate limit by ip, then validation
BeginRegister(c, ip, email) ==
    /\ CanBeginRegister(c)
    /\ regStore' = [regStore EXCEPT ![ip] = @ + 1]
    /\ LET call == [RegisterIdle EXCEPT !.ip = ip, !.email = email]
       IN registers' = [registers EXCEPT ![c] =
                          IF regStore'[ip] <= REGISTER_RATE_MAX
                          THEN [call EXCEPT !.pc = "findOne"]
                          ELSE [call EXCEPT !.pc = "done", !.status = 429,
                                            !.code = "RATE_LIMIT_EXCEEDED",
                                            !.retryAfter = TRUE]]
    /\ UNCHANGED <<exceptReg, accounts>>

\* User.findOne({ email }) and the 409 of an existing account
FindAccount(c) ==
    /\ registers[c].pc = "findOne"
    /\ registers' = [registers EXCEPT ![c] =
                       IF \E i \in DOMAIN accounts :
                             accounts[i] = Normalise(registers[c].email)
                       THEN [@ EXCEPT !.pc = "done", !.status = 409,
                                      !.code = "USER_EXISTS"]
                       ELSE [@ EXCEPT !.pc = "create"]]
    /\ UNCHANGED <<exceptReg, accounts, regStore>>

\* User.create; a duplicate key is caught and answered 409
CreateAccount(c) ==
    /\ registers[c].pc = "create"
    /\ LET email == Normalise(registers[c].email)
       IN IF DuplicateEmail(email)
          THEN /\ registers' = [registers EXCEPT ![c] =
                                  [@ EXCEPT !.pc = "done", !.status = 409,
                                            !.code = "USER_EXISTS"]]
               /\ UNCHANGED accounts
          ELSE /\ accounts' = Append(accounts, email)
               /\ registers' = [registers EXCEPT ![c] =
                                  [@ EXCEPT !.pc = "done", !.status = 201,
                                            !.code = "CREATED", !.created = TRUE]]
    /\ UNCHANGED <<exceptReg, regStore>>

\* the school is active, inactive or archived; no request made
InitQueries ==
    /\ \E st \in Statuses :
          schools = [s \in SchoolIds |-> [NewSchool EXCEPT !.status = st]]
    /\ adoptions = <<>>
    /\ users = [u \in Users |-> NoUser]
    /\ store = [u \in Users |-> 0]
    /\ today = 0
    /\ calls = [c \in Calls |-> Idle]
    /\ initial = schools
    /\ InitSide
    /\ InitMore

\* GET /api/schools without search: countDocuments for the total
ListCount(c, param) ==
    /\ CanBeginQuery(c)
    /\ queries' = [queries EXCEPT ![c] =
                     [QueryIdle EXCEPT !.pc = "find", !.kind = "list",
                                       !.status = param,
                                       !.total = countDocuments(StatusFilter(param))]]
    /\ UNCHANGED <<exceptQueries, schools>>

\* GET /api/schools without search: find for the page, 200
ListFind(c, kept) ==
    /\ queries[c].pc = "find"
    /\ queries' = [queries EXCEPT ![c] =
                     [queries[c] EXCEPT
                        !.pc = "done", !.code = 200,
                        !.returned = find(StatusFilter(queries[c].status), kept)]]
    /\ UNCHANGED <<exceptQueries, schools>>

\* GET /api/schools?search=: School.search, total is the page's length
Search(c, param, kept) ==
    /\ CanBeginQuery(c)
    /\ LET found == find(StatusFilter(param), kept)
       IN queries' = [queries EXCEPT ![c] =
                        [QueryIdle EXCEPT !.pc = "done", !.kind = "search",
                                          !.status = param, !.code = 200,
                                          !.returned = found,
                                          !.total = Cardinality(found)]]
    /\ UNCHANGED <<exceptQueries, schools>>

\* GET /api/schools/slug/:slug and GET /api/schools/:id/adopters
GetOne(c, kind, s) ==
    /\ CanBeginQuery(c)
    /\ kind \in {"slug", "adopters"}
    /\ LET found == findVisible(s)
       IN queries' = [queries EXCEPT ![c] =
                        [QueryIdle EXCEPT !.pc = "done", !.kind = kind,
                                          !.returned = found,
                                          !.total = Cardinality(found),
                                          !.code = IF found = {} THEN 404 ELSE 200]]
    /\ UNCHANGED <<exceptQueries, schools>>

\* the read handlers on schools
NextQueries ==
    \/ \E c \in Calls, param \in StatusParams : ListCount(c, param)
    \/ \E c \in Calls, kept \in BOOLEAN : ListFind(c, kept)
    \/ \E c \in Calls, param \in StatusParams, kept \in BOOLEAN :
          Search(c, param, kept)
    \/ \E c \in Calls, kind \in QueryKinds, s \in SchoolIds : GetOne(c, kind, s)

\* any configuration of JWT_REFRESH_SECRET; nobody has logged in
InitTokens ==
    /\ schools = [s \in SchoolIds |-> NewSchool]
    /\ adoptions = <<>>
    /\ users = [u \in Users |-> NoUser]
    /\ store = [u \in Users |-> 0]
    /\ today = 0
    /\ calls = [c \in Calls |-> Idle]
    /\ initial = schools
    /\ InitSide
    /\ InitRegister
    /\ queries = [c \in Calls |-> QueryIdle]
    /\ \E cfg \in RefreshSecrets : authn = AuthnInit(cfg)
    /\ InitRest

\* POST /api/auth/login: both tokens are issued
Login ==
    /\ authn' = [authn EXCEPT
                    !.access = generateAccessToken(authn.at),
                    !.refresh = generateRefreshToken(authn.refreshSecret, authn.at)]
    /\ UNCHANGED exceptAuthn

\* time passes to the next instant
Later ==
    /\ authn.at < Len(Instants)
    /\ authn' = [authn EXCEPT !.at = @ + 1]
    /\ UNCHANGED exceptAuthn

\* a request that presents one of the issued tokens to a protected endpoint
\* (withAuth) or to POST /api/auth/refresh
Present(endpoint, token) ==
    /\ token \in {authn.access, authn.refresh}
    /\ token # NoToken
    /\ LET now == Instants[authn.at]
           ok == IF endpoint = "protected"
                 THEN withAuthAccepts(token, authn.refreshSecret, now)
                 ELSE refreshAccepts(token, authn.refreshSecret, now)
       IN authn' = [authn EXCEPT
                      !.last = [endpoint |-> endpoint, token |-> token,
                                at |-> authn.at, ok |-> ok]]
    /\ UNCHANGED exceptAuthn

NextTokens ==
    \/ Login
    \/ Later
    \/ \E endpoint \in Endpoints :
          \/ Present(endpoint, authn.access)
          \/ Present(endpoint, authn.refresh)

\* the registration handler
NextRegister ==
    \/ \E c \in Calls, ip \in Ips, email \in Emails : BeginRegister(c, ip, email)
    \/ \E c \in Calls : FindAccount(c)
    \/ \E c \in Calls : CreateAccount(c)

\* the answer handler, leader verification and the passing of days
NextPrayer ==
    \/ \E c \in Calls, u \in Users, r \in RequestIds, note \in Notes :
          BeginPatch(c, u, r, note)
    \/ \E c \in Calls : FindRequest(c)
    \/ \E c \in Calls : SavePatch(c)
    \/ \E u \in Users : VerifyLeader(u)
    \/ Tick

\* the journal delete handler
NextJournal ==
    \/ \E c \in Calls, j \in JournalIds, tok \in Tokens :
          BeginDeleteUnauthorized(c, j, tok)
    \/ \E c \in Calls, u \in Users, j \in JournalIds : BeginDelete(c, u, j)
    \/ \E c \in Calls : FindEntry(c)
    \/ \E c \in Calls : DeleteEntry(c)

\* the deployed program: POST /api/adoptions requests only
NextHttp ==
    \/ \E c \in Calls, u \in Users, s \in SchoolIds, t \in AdoptionTypes :
          BeginPost(c, u, s, t)
    \/ \E c \in Calls : LoadSchool(c)
    \/ \E c \in Calls : CreateAdoption(c)
    \/ \E c \in Calls : AddAdopter(c)
    \/ \E c \in Calls : UpdateStreak(c)

\* direct callers of the School instance methods only
NextMethods ==
    \/ \E c \in Calls, u \in Users, s \in SchoolIds, t \in AdoptionTypes :
          BeginAdd(c, u, s, t)
    \/ \E c \in Calls : AddAdopter(c)
    \/ \E c \in Calls, u \in Users, s \in SchoolIds : BeginRemove(c, u, s)
    \/ \E c \in Calls : RemoveAdopter(c)

\* the handler together with direct callers of the School methods
Next ==
    \/ NextHttp
    \/ NextMethods

\* the handler with the requests it turns away before it loads the school
NextEdge ==
    \/ NextHttp
    \/ \E c \in Calls, tok \in Tokens : BeginUnauthorized(c, tok)
    \/ \E c \in Calls, u \in Users, bad \in BadInputs : BeginInvalid(c, u, bad)

\* the handler in an environment where a save can fail and a school can be
\* archived while a request is in flight
NextFaults ==
    \/ NextHttp
    \/ \E c \in Calls : StreakSaveFails(c)
    \/ \E s \in SchoolIds : ArchiveSchool(s)

SpecHttp == Init /\ [][NextHttp]_vars

\* every step a request has reached is eventually taken, and clients keep
\* sending requests (retries among them) while a slot is free
FairHttp ==
    /\ \A c \in Calls :
          /\ WF_vars(LoadSchool(c))
          /\ WF_vars(CreateAdoption(c))
          /\ WF_vars(AddAdopter(c))
          /\ WF_vars(UpdateStreak(c))
    /\ WF_vars(\E c \in Calls, u \in Users, s \in SchoolIds, t \in AdoptionTypes :
                  BeginPost(c, u, s, t))

SpecHttpFair == Init /\ [][NextHttp]_vars /\ FairHttp

SpecEdge == Init /\ [][NextEdge]_vars

SpecFaults == Init /\ [][NextFaults]_vars

SpecPrayer == InitQuiet /\ [][NextPrayer]_vars

SpecJournal == InitQuiet /\ [][NextJournal]_vars

SpecRegister == InitRegisterBusy /\ [][NextRegister]_vars

SpecQueries == InitQueries /\ [][NextQueries]_vars

SpecTokens == InitTokens /\ [][NextTokens]_vars

SpecLimiter == InitQuiet /\ [][NextLimiter]_vars

SpecStreak == InitQuiet /\ [][NextStreak]_vars

SpecDb == InitQuiet /\ [][NextDb]_vars

SpecClient == InitQuiet /\ [][NextClient]_vars

SpecClientFair == InitQuiet /\ [][NextClient]_vars /\ FairClient

SpecMethods == Init /\ [][NextMethods]_vars

Spec == Init /\ [][Next]_vars

----------------------------------------------------------------------------
(* Properties *)

Done(c) == calls[c].pc = "done"

\* calls whose addAdopter update was applied to school s
Added(s) == {c \in Calls : calls[c].schoolId = s /\ calls[c].ret = "updated"}

\* removeAdopter calls whose update was applied to school s
Removed(s) ==
    {c \in Calls : calls[c].op = "remove" /\ calls[c].schoolId = s
                   /\ Done(c) /\ calls[c].updated.found}

\* finished POST /api/adoptions requests of user u for school s
Posts(u, s) ==
    {c \in Calls : calls[c].op = "post" /\ calls[c].userId = u
                   /\ calls[c].schoolId = s}

\* two calls for the same user and school, each holding a copy of the school
\* loaded before the user was in it
SameUserRace(c1, c2) ==
    /\ c1 # c2
    /\ calls[c1].userId = calls[c2].userId
    /\ calls[c1].schoolId = calls[c2].schoolId
    /\ calls[c1].doc.found /\ calls[c2].doc.found
    /\ ~isAdoptedByUser(calls[c1].doc, calls[c1].userId)
    /\ ~isAdoptedByUser(calls[c2].doc, calls[c2].userId)

\* C1: for every school, adoptionCount equals the number of entries in
\* adopters after any interleaving of committed addAdopter and removeAdopter
\* operations.
C1_CountEqualsAdopters ==
    \A s \in SchoolIds : schools[s].adoptionCount = AdoptersLength(schools[s])

\* C2: the ledger never holds two rows for one (userId, schoolId) pair: an
\* Adoption.create for a pair that has a row fails with the duplicate-key
\* error and inserts nothing, whatever the interleaving of POST requests.
C2_LedgerPairUnique ==
    /\ \A u \in Users, s \in SchoolIds : Cardinality(RowsOf(u, s)) <= 1
    /\ Len(adoptions) = Cardinality({c \in Calls : calls[c].created})
    /\ \A c \in Calls :
          calls[c].error = "E11000" =>
             /\ ~calls[c].created
             /\ RowsOf(calls[c].userId, calls[c].schoolId) # {}

\* C2 witness: a create lost to an existing row of the same pair
C2_Witness ==
    \E c \in Calls : calls[c].error = "E11000" /\ Len(adoptions) = 1

C4_OneEntryPerUser ==
    \A s \in SchoolIds, u \in Users : EntriesOf(schools[s], u) <= 1

\* C4 witness: two requests of one user passed the pre-check on their own
\* copies and the registry mutation of one of them was applied
C4_Witness ==
    \E c1, c2 \in Calls :
       /\ SameUserRace(c1, c2)
       /\ calls[c1].op = "post" /\ calls[c2].op = "post"
       /\ calls[c1].ret = "updated"
       /\ Done(c2)
       /\ EntriesOf(schools[calls[c1].schoolId], calls[c1].userId) = 1

\* C5: two addAdopter calls for the same user on the same school, each on its
\* own copy loaded before the user was an adopter, leave exactly one entry for
\* the user: one call updates, the other returns false and changes nothing.
C5_SecondAddReturnsFalse ==
    \A c1, c2 \in Calls :
       (/\ SameUserRace(c1, c2)
        /\ calls[c1].ret # "none" /\ calls[c2].ret # "none"
        /\ calls[c1].ret # "throw" /\ calls[c2].ret # "throw"
        /\ Removed(calls[c1].schoolId) = {})
       => /\ EntriesOf(schools[calls[c1].schoolId], calls[c1].userId) = 1
          /\ {calls[c1].ret, calls[c2].ret} = {"updated", "false"}

\* C6: addAdopter calls of different users on one school never lose an
\* append: as long as nothing was removed, the array has grown by one entry
\* and adoptionCount by one for every applied add, and every such user is in
\* adopters.
C6_NoLostAppend ==
    \A s \in SchoolIds :
       Removed(s) = {} =>
          /\ AdoptersLength(schools[s]) =
                AdoptersLength(initial[s]) + Cardinality(Added(s))
          /\ schools[s].adoptionCount =
                initial[s].adoptionCount + Cardinality(Added(s))
          /\ \A c \in Added(s) : EntriesOf(schools[s], calls[c].userId) >= 1

\* C6 witness: two adds of different users, both on copies loaded before
\* either update, have both been applied
C6_Witness ==
    \E c1, c2 \in Calls :
       /\ calls[c1].userId # calls[c2].userId
       /\ calls[c1].schoolId = calls[c2].schoolId
       /\ calls[c1].doc = calls[c2].doc
       /\ calls[c1].ret = "updated" /\ calls[c2].ret = "updated"
       /\ schools[calls[c1].schoolId].adoptionCount =
             initial[calls[c1].schoolId].adoptionCount + 2

\* C7: removeAdopter lowers adoptionCount by exactly the number of entries it
\* removed (0 or 1), and adoptionCount never goes below zero.
C7_DecrementsByRemoved ==
    /\ \A s \in SchoolIds : schools[s].adoptionCount >= 0
    /\ \A c \in Calls :
          (calls[c].op = "remove" /\ Done(c) /\ calls[c].updated.found) =>
             calls[c].pre.adoptionCount - calls[c].updated.adoptionCount =
                calls[c].pre.n - calls[c].updated.n

\* C8: removeAdopter returns true if and only if an entry of the user was
\* removed; for a user with no entry it returns false.
C8_ReturnsWhetherRemoved ==
    \A c \in Calls :
       (calls[c].op = "remove" /\ Done(c) /\ calls[c].doc.found) =>
          (calls[c].ret = "true" <=>
              (calls[c].updated.found /\ calls[c].updated.n < calls[c].pre.n))

\* C9: a school never holds more than MAX_ADOPTERS entries, and no add is
\* applied to a school that already holds MAX_ADOPTERS entries.
C9_AdopterLimit ==
    /\ \A s \in SchoolIds : AdoptersLength(schools[s]) <= MAX_ADOPTERS
    /\ \A c \in Calls : calls[c].ret = "updated" => calls[c].pre.n < MAX_ADOPTERS

\* C10: an applied addAdopter(userId, type) appends exactly one entry, which is
\* the user's and of the given type, raises adoptionCount by 1, raises
\* totalPrayerAdoptions by 1 iff type is prayer or both and by 0 otherwise, and
\* totalRevivalAdoptions by 1 iff type is revival or both and by 0 otherwise;
\* totalJournalEntries is unchanged.
C10_AddAdopterEffect ==
    \A c \in Calls :
       calls[c].ret = "updated" =>
          LET pre == calls[c].pre
              post == calls[c].updated
              t == calls[c].adoptionType
          IN /\ post.n = pre.n + 1
             /\ post.mine = pre.mine + 1
             /\ post.last.userId = calls[c].userId
             /\ post.last.adoptionType = t
             /\ post.totalJournalEntries = pre.totalJournalEntries
             /\ post.adoptionCount = pre.adoptionCount + 1
             /\ post.totalPrayerAdoptions - pre.totalPrayerAdoptions =
                   (IF t \in {"prayer", "both"} THEN 1 ELSE 0)
             /\ post.totalRevivalAdoptions - pre.totalRevivalAdoptions =
                   (IF t \in {"revival", "both"} THEN 1 ELSE 0)

\* C10 witness: an add of type both was applied and raised both counters
C10_Witness ==
    \E c \in Calls :
       /\ calls[c].ret = "updated"
       /\ calls[c].adoptionType = "both"
       /\ calls[c].updated.totalRevivalAdoptions = 1
       /\ calls[c].updated.totalPrayerAdoptions = calls[c].pre.totalPrayerAdoptions + 1

\* the step named in the call's log of steps taken
InLog(call, step) == \E i \in DOMAIN call.log : call.log[i] = step

\* a request whose ledger row was inserted and whose registry mutation then
\* failed: addAdopter threw, or its update matched no school
RegistryFailed(c) ==
    /\ calls[c].op = "post"
    /\ calls[c].created
    /\ calls[c].ret \in {"throw", "null"}

\* C11: when the registry mutation fails after the ledger insert committed, the
\* ledger row is kept and the request is answered PARTIAL_FAILURE, never 201
\* and never the generic SERVER_ERROR.
C11_PartialFailure ==
    \A c \in Calls :
       (RegistryFailed(c) /\ Done(c)) =>
          /\ RowsOf(calls[c].userId, calls[c].schoolId) # {}
          /\ calls[c].code = "PARTIAL_FAILURE"
          /\ calls[c].status # 201

\* C12: a failure of user.updateStreak does not fail the adoption: a request
\* whose ledger row and adopters entry were written is answered 201 even when
\* the streak update failed.
C12_StreakFailureTolerated ==
    \A c \in Calls :
       (calls[c].op = "post" /\ calls[c].error = "SAVE_FAILED") =>
          calls[c].status = 201

\* C13: the rate limit is applied before the identity is resolved: a request
\* answered 429 had its token neither verified nor its user looked up.
C13_RateLimitBeforeIdentity ==
    \A c \in Calls :
       (calls[c].op = "post" /\ calls[c].status = 429) =>
          /\ ~InLog(calls[c], "verify")
          /\ ~InLog(calls[c], "findUser")

\* C14: every 429 RATE_LIMIT_EXCEEDED response carries a retry-after hint.
C14_RetryAfterHint ==
    \A c \in Calls :
       (calls[c].status = 429 /\ calls[c].code = "RATE_LIMIT_EXCEEDED") =>
          calls[c].retryAfter

\* a finished request that was issued after an earlier request of the same
\* user for the same school had written the ledger row and the adopters entry
Repeat(c) == calls[c].op = "post" /\ calls[c].repeat /\ Done(c)

\* the request wrote nothing: no ledger row, no registry mutation
WroteNothing(c) == ~calls[c].created /\ calls[c].ret = "none"

\* a step taken by a repeat leaves the ledger, the schools and the users as
\* they are
StepsOfRepeatsChangeNothing ==
    \A c \in Calls :
       (calls'[c] # calls[c] /\ calls'[c].repeat) =>
          UNCHANGED <<schools, adoptions, users>>

C16_StatsEchoRegistry ==
    \A c \in Calls :
       (calls[c].op = "post" /\ calls[c].status = 201) =>
          /\ calls[c].ret = "updated"
          /\ calls[c].updated.mine >= 1
          /\ calls[c].schoolStats.adoptionCount = calls[c].updated.adoptionCount
          /\ calls[c].schoolStats.totalAdopters = calls[c].updated.n
          /\ (calls[c].pre.adoptionCount = calls[c].doc.adoptionCount =>
                 calls[c].schoolStats.adoptionCount = calls[c].doc.adoptionCount + 1)

\* a finished request that was turned away at one of the first four steps:
\* 401, 400, 404, or 409 at the pre-check
TurnedAway(c) ==
    /\ calls[c].op = "post"
    /\ Done(c)
    /\ \/ calls[c].status \in {400, 401, 404}
       \/ calls[c].status = 409 /\ calls[c].error = "none"

\* user u is known and every request begun in u's name was turned away
OnlyTurnedAway(u) ==
    /\ u \in Users
    /\ \A d \in Calls : calls[d].userId = u => TurnedAway(d)

\* a step of a request that has not inserted its ledger row leaves the ledger,
\* the schools and the users as they are
StepsBeforeCreateChangeNothing ==
    \A c \in Calls :
       (calls'[c] # calls[c] /\ ~calls'[c].created) =>
          UNCHANGED <<schools, adoptions, users>>

\* C17: a request that terminates with 401, 400, 404 or 409 at the pre-check
\* wrote nothing: it inserted no ledger row, made no registry mutation and did
\* not touch the streak, and none of its steps changed the ledger, a school or
\* a user.
C17_TurnedAwayChangesNothing ==
    /\ [](\A c \in Calls :
            TurnedAway(c) =>
               /\ WroteNothing(c)
               /\ OnlyTurnedAway(calls[c].userId) =>
                     /\ users[calls[c].userId] = NoUser
                     /\ \A s \in SchoolIds :
                           /\ RowsOf(calls[c].userId, s) = {}
                           /\ EntriesOf(schools[s], calls[c].userId) = 0)
    /\ [][StepsBeforeCreateChangeNothing]_vars

C17_Witness ==
    \E c \in Calls :
       /\ TurnedAway(c)
       /\ calls[c].status = 409
       /\ Len(adoptions) = 1
       /\ users[calls[c].userId].streakCount = 1

PatchDone(c) == patches[c].pc = "done"

\* the stored owner of the request a call names
OwnerOf(c) == prayerRequests[patches[c].requestId].userId

\* a step that changes a stored prayer request is the save of a call made by
\* the request's creator or by a verified leader
OnlyCreatorOrLeaderWrites ==
    \A r \in RequestIds :
       prayerRequests'[r] # prayerRequests[r] =>
          \E c \in Calls :
             /\ patches[c].pc = "save" /\ patches'[c].pc = "done"
             /\ patches[c].requestId = r
             /\ \/ patches[c].userId = prayerRequests[r].userId
                \/ patches[c].userId \in leaders

\* C18: PATCH /prayer-requests/answer changes a prayer request only when the
\* acting user is its creator or a verified leader; any other authenticated
\* user is answered 403 and the request's isAnswered, answeredAt and answerNote
\* are not written.
C18_OnlyCreatorOrLeader ==
    /\ [](\A c \in Calls :
            PatchDone(c) =>
               /\ (patches[c].userId # OwnerOf(c) /\ ~patches[c].isLeader) =>
                     patches[c].status = 403
               /\ patches[c].status = 403 =>
                     /\ patches[c].before = NoRequest
                     /\ patches[c].after = NoRequest)
    /\ [][OnlyCreatorOrLeaderWrites]_vars

C18_Witness ==
    \E c1, c2 \in Calls :
       /\ PatchDone(c1) /\ patches[c1].status = 403
       /\ PatchDone(c2) /\ patches[c2].status = 200
       /\ patches[c2].userId # OwnerOf(c2)
       /\ prayerRequests[patches[c2].requestId].isAnswered

\* C19: a prayer request goes from unanswered to answered once: marking an
\* answered request again succeeds but leaves answeredAt and answerNote as they
\* were, and isAnswered stays true.
C19_AnsweredOnce ==
    \A c \in Calls :
       (PatchDone(c) /\ patches[c].status = 200 /\ patches[c].before.isAnswered) =>
          /\ patches[c].after.isAnswered
          /\ patches[c].after.answeredAt = patches[c].before.answeredAt
          /\ patches[c].after.answerNote = patches[c].before.answerNote

DeleteDone(c) == deletes[c].pc = "done"

\* a step that removes a journal entry is the deleteOne of a call made by the
\* entry's owner
OnlyOwnerDeletes ==
    \A j \in JournalIds :
       (journal[j].exists /\ ~journal'[j].exists) =>
          \E c \in Calls :
             /\ deletes[c].pc = "delete" /\ deletes'[c].pc = "done"
             /\ deletes[c].entryId = j
             /\ deletes[c].userId = journal[j].userId

\* C20: a journal entry is deleted only by its owner: DELETE /journal/:id by
\* another authenticated user is answered 404 and removes nothing, and an
\* unauthenticated request is answered 401 and removes nothing.
C20_OnlyOwnerDeletes ==
    /\ [](\A c \in Calls :
            DeleteDone(c) =>
               /\ deletes[c].userId = 0 => deletes[c].status = 401
               /\ (deletes[c].userId # 0
                   /\ deletes[c].userId # journal[deletes[c].entryId].userId) =>
                     deletes[c].status = 404
               /\ deletes[c].status # 200 => ~deletes[c].found)
    /\ [][OnlyOwnerDeletes]_vars

C20_Witness ==
    \E c1, c2 \in Calls :
       /\ DeleteDone(c1) /\ deletes[c1].status = 404
       /\ deletes[c1].userId # journal[deletes[c1].entryId].userId
       /\ journal[deletes[c1].entryId].exists
       /\ DeleteDone(c2) /\ deletes[c2].status = 401

RegisterDone(c) == registers[c].pc = "done"

\* finished registrations whose emails normalise to e
Registrations(e) ==
    {c \in Calls : RegisterDone(c) /\ Normalise(registers[c].email) = e}

Archived == {s \in SchoolIds : schools[s].status = "archived"}

\* C22: no archived school is returned by a School query made without
\* includeArchived, and list, search, get-by-slug and get-adopters answer as
\* if the archived school did not exist: nothing of it is in the result and
\* the total counts no archived school.
C22_ArchivedInvisible ==
    \A c \in Calls :
       queries[c].pc = "done" =>
          /\ queries[c].returned \cap Archived = {}
          /\ queries[c].total <= Cardinality(SchoolIds \ Archived)

RowBeforeEntry ==
    \A u \in Users, s \in SchoolIds :
       EntriesOf(schools'[s], u) > EntriesOf(schools[s], u) => RowsOf(u, s) # {}

\* a step that writes a user's streak is taken by a request of that user whose
\* ledger insert and registry mutation are behind it
EntryBeforeStreak ==
    \A u \in Users :
       users'[u] # users[u] =>
          \E c \in Calls :
             /\ calls[c].userId = u /\ calls[c].pc = "streak"
             /\ calls'[c].pc = "done"
             /\ calls[c].created /\ calls[c].ret # "none"

\* C25: within one adoption attempt the ledger insert commits before the
\* registry mutation and the registry mutation before the streak update; so
\* in every reachable state every adopter entry of user u in school s has a
\* ledger row (u, s).
C25_LedgerThenRegistryThenStreak ==
    /\ [](\A u \in Users, s \in SchoolIds :
            EntriesOf(schools[s], u) >= 1 => RowsOf(u, s) # {})
    /\ [](\A c \in Calls :
            /\ calls[c].ret # "none" => calls[c].created
            /\ calls[c].status = 201 => calls[c].ret # "none")
    /\ [][RowBeforeEntry]_vars
    /\ [][EntryBeforeStreak]_vars

C25_Witness ==
    \E c \in Calls :
       /\ calls[c].status = 201
       /\ EntriesOf(schools[calls[c].schoolId], calls[c].userId) = 1
       /\ Cardinality(RowsOf(calls[c].userId, calls[c].schoolId)) = 1
       /\ users[calls[c].userId].streakCount = 1

\* C24: whatever JWT_REFRESH_SECRET is, withAuth accepts only an access token
\* within its lifetime of ACCESS_TOKEN_MINUTES, and a refresh token is accepted
\* by POST /api/auth/refresh only.
C24_RefreshTokenNeverAuthenticates ==
    /\ (authn.last.endpoint = "protected" /\ authn.last.ok) =>
          /\ authn.last.token.type = "access"
          /\ Instants[authn.last.at] < authn.last.token.exp
    /\ (authn.last.token.type = "refresh" /\ authn.last.ok) =>
          authn.last.endpoint = "refresh"

\* the checks of identifier id before the one at position k of the history
EarlierChecks(id, k) ==
    {j \in 1..(k - 1) : limiter.hist[j].id = id}

\* check k of the history opened a window: it is the first of its identifier
\* or came after the resetAt of the one before it
OpensWindow(k) ==
    LET id == limiter.hist[k].id
        before == EarlierChecks(id, k)
    IN \/ before = {}
       \/ LET j == CHOOSE j \in before : \A i \in before : i <= j
          IN limiter.hist[k].at > limiter.hist[j].resetAt

\* the checks of the same window as check k, up to k: same identifier, same
\* resetAt
SameWindowUpTo(k) ==
    {j \in 1..k : /\ limiter.hist[j].id = limiter.hist[k].id
                  /\ limiter.hist[j].resetAt = limiter.hist[k].resetAt}

\* C26: checkRateLimit is a fixed window per identifier: a check is allowed
\* exactly when it is among the first RateMax of its window; a check that does
\* not open a window keeps the window's resetAt, denied ones included; the
\* first check after resetAt opens a window of RateWindow and is allowed; a
\* check of one identifier leaves the entries of the others alone.
C26_FixedWindow ==
    /\ [](\A k \in DOMAIN limiter.hist :
            LET h == limiter.hist[k]
            IN /\ h.allowed <=> Cardinality(SameWindowUpTo(k)) <= RateMax
               /\ OpensWindow(k) => h.allowed /\ h.resetAt = h.at + RateWindow
               /\ ~OpensWindow(k) =>
                     \E j \in EarlierChecks(h.id, k) :
                        /\ limiter.hist[j].resetAt = h.resetAt
                        /\ h.at <= h.resetAt
                        /\ \A i \in EarlierChecks(h.id, k) : i <= j)
    /\ [][\A id \in RateIds :
            (Len(limiter'.hist) > Len(limiter.hist)
               /\ limiter'.hist[Len(limiter'.hist)].id # id) =>
                  limiter'.store[id] = limiter.store[id]]_vars

C26_Witness ==
    \E k1, k2 \in DOMAIN limiter.hist :
       /\ k1 < k2
       /\ limiter.hist[k1].id = limiter.hist[k2].id
       /\ ~limiter.hist[k1].allowed
       /\ limiter.hist[k2].allowed
       /\ limiter.hist[k2].at > limiter.hist[k1].resetAt
       /\ \E k0 \in DOMAIN limiter.hist : limiter.hist[k0].id # limiter.hist[k1].id

\* the runs of the refresh closure whose POST /auth/refresh is outstanding
Outstanding == {k \in DOMAIN client.runs : ~client.runs[k].settled}

\* C27: at most one POST /auth/refresh is outstanding at any time, and
\* refreshPromise is null once the refresh it names has settled (success,
\* failure or missing refresh token), so that a later call starts a new one.
C27_RefreshDeduplicated ==
    /\ Cardinality(Outstanding) <= 1
    /\ client.refreshPromise # 0 => client.refreshPromise \in Outstanding

\* a request sent one more fetch: what it had seen allowed that
RetryAllowed(q) ==
    \/ q.last \in {"network", "500"} /\ q.attempt < MAX_RETRIES
    \/ /\ q.last = "401" /\ q.attempt = 0
       /\ q.run # 0 /\ client.runs[q.run].result = "token"

InFlight == {k \in DOMAIN db.runs : db.runs[k].state = "pending"}

UtcDay(instant) == instant \div PartsOfDay

\* C30: the first updateStreak sets streakCount to 1; a call on the UTC day
\* of lastPrayerDate leaves it unchanged, a call on the next UTC day adds 1, a
\* call on a later UTC day resets it to 1; streakCount >= 1 whenever
\* lastPrayerDate is set.
C30_StreakByUtcDay ==
    /\ streak.user.lastPrayerDate # NoDate => streak.user.streakCount >= 1
    /\ streak.op = "updateStreak" =>
          LET was == streak.before
              is == streak.user
          IN /\ is.lastPrayerDate = streak.now
             /\ IF was.lastPrayerDate = NoDate
                THEN is.streakCount = 1
                ELSE LET days == UtcDay(streak.now) - UtcDay(was.lastPrayerDate)
                     IN /\ days = 0 => is.streakCount = was.streakCount
                        /\ days = 1 => is.streakCount = was.streakCount + 1
                        /\ days > 1 => is.streakCount = 1

C30_Witness ==
    /\ streak.op = "updateStreak"
    /\ streak.before.streakCount >= 2
    /\ streak.user.streakCount = 1
    /\ UtcDay(streak.now) - UtcDay(streak.before.lastPrayerDate) > 1

====
